---- MODULE Spec2Model ----
(***************************************************************************)
(* Model of src/simple.py: the /api/simple_loan handler (simple_loan), its *)
(* input coercion helpers (_parse_float, _parse_int) and the month         *)
(* stepping helper (add_months).                                           *)
(*                                                                         *)
(* Representation of numbers.  Python floats are modelled by exact         *)
(* rationals over the integers:                                            *)
(*   - money is counted in mills (1/1000 of a currency unit), so a value   *)
(*     rounded by round(x, 2) is a multiple of 10 mills and a principal    *)
(*     such as 1.004 is 1004;                                              *)
(*   - annual_rate is a whole number of percent;                           *)
(*   - term_years is counted in half years (1.5 years is 3);               *)
(*   - the periodic rate is a reduced fraction [num, den] with den > 0.    *)
(* round(x, 2) rounds the binary double nearest to x, so a value that is   *)
(* a decimal tie (0.005, 0.015, ...) goes up or down depending on its      *)
(* binary expansion (round(0.005, 2) = 0.01, round(0.015, 2) = 0.01).      *)
(* The model returns BOTH neighbours for an exact tie and the nearest      *)
(* multiple otherwise: rounding is a set of possible results.              *)
(* round(term_years * payments_per_year) only meets ties that are exact    *)
(* in binary (k + 0.5), where Python rounds half to even.                  *)
(***************************************************************************)
EXTENDS Integers, Sequences, FiniteSets, TLC

VARIABLES data, pc, principal, annual_rate, term_years, payments_per_year,
          include_schedule, n_payments, periodic_rate, payment, start_date,
          balance, i, schedule, total_interest, response

vars == <<data, pc, principal, annual_rate, term_years, payments_per_year,
          include_schedule, n_payments, periodic_rate, payment, start_date,
          balance, i, schedule, total_interest, response>>

(***************************************************************************)
(* Bounds of the explored input space.                                     *)
(***************************************************************************)
\* largest term_years, in half years
MaxTermHalves == 5
\* largest magnitude of an intermediate integer of the annuity formula
MaxMagnitude == 100000000

\* default of payments_per_year
DefaultPaymentsPerYear == 12

(***************************************************************************)
(* Arithmetic helpers.                                                     *)
(***************************************************************************)
Abs(x) == IF x < 0 THEN -x ELSE x

Min(a, b) == IF a <= b THEN a ELSE b

RECURSIVE GCD(_, _)
GCD(a, b) == IF b = 0 THEN a ELSE GCD(b, a % b)

RECURSIVE Pow(_, _)
Pow(x, n) == IF n <= 0 THEN 1 ELSE x * Pow(x, n - 1)

\* product of two naturals, saturating just above MaxMagnitude
MulCap(x, y) ==
    IF x = 0 \/ y = 0 THEN 0
    ELSE IF x > MaxMagnitude \div y THEN MaxMagnitude + 1
    ELSE x * y

RECURSIVE PowCap(_, _)
PowCap(x, n) == IF n <= 0 THEN 1 ELSE MulCap(x, PowCap(x, n - 1))

\* The multiples of unit nearest to the rational num/den (den # 0): one
\* value, or the two neighbours when num/den lies exactly half way.
RoundSet(num, den, unit) ==
    LET nn  == IF den < 0 THEN -num ELSE num
        dd  == Abs(den) * unit
        q   == nn \div dd
        rem == nn - q * dd
    IN  IF 2 * rem < dd THEN {q * unit}
        ELSE IF 2 * rem > dd THEN {(q + 1) * unit}
        ELSE {q * unit, (q + 1) * unit}

\* round(x, 2) of the amount num/den mills: a multiple of 10 mills
Round2(num, den) == RoundSet(num, den, 10)

\* round(x) of Python 3 on a value that is exact in binary: half to even
RoundHalfEven(num, den) ==
    LET nn  == IF den < 0 THEN -num ELSE num
        dd  == Abs(den)
        q   == nn \div dd
        rem == nn - q * dd
    IN  IF 2 * rem < dd THEN q
        ELSE IF 2 * rem > dd THEN q + 1
        ELSE IF q % 2 = 0 THEN q ELSE q + 1

(***************************************************************************)
(* Raw request fields.  A field of the request mapping is a record         *)
(* [kind, val]:                                                            *)
(*   absent  - the key is not in the mapping                               *)
(*   none    - JSON null                                                   *)
(*   blank   - a string that is empty after strip()                        *)
(*   bad     - a string such as "abc"                                      *)
(*   num     - a number, or a string that float()/int() accepts            *)
(*   float   - (payments_per_year) a JSON float, val in halves             *)
(*   fracstr - (payments_per_year) a string such as "2.5", val in halves:  *)
(*             float() accepts it, int() raises ValueError                 *)
(***************************************************************************)
Raw(k, v) == [kind |-> k, val |-> v]

Tags == {Raw("absent", 0), Raw("none", 0), Raw("blank", 0), Raw("bad", 0)}

Nums(S) == {Raw("num", v) : v \in S}

\* data.get(key, dflt)
Get(d, key, dflt) == IF d[key].kind = "absent" THEN dflt ELSE d[key]

\* float(value) / int(value) raised: the ValueError re-raised by the helper
ParseError == [ok |-> FALSE, val |-> 0]

Parsed(v) == [ok |-> TRUE, val |-> v]

\* int() of a float truncates toward zero; h is the value in halves
Truncate(h) == IF h >= 0 THEN h \div 2 ELSE -((-h) \div 2)

\* variant of parse_float without the blank-string test of line 13
parse_float_blank_rejected(value, default) ==
    IF value.kind = "none" THEN Parsed(default)
    ELSE IF value.kind = "num" THEN Parsed(value.val)
    ELSE ParseError

\* _parse_float
parse_float(value, default) ==
    IF value.kind = "none" THEN Parsed(default)
    ELSE IF value.kind = "blank" THEN Parsed(default)
    ELSE IF value.kind = "num" THEN Parsed(value.val)
    ELSE ParseError

\* _parse_int
parse_int(value, default) ==
    IF value.kind = "none" THEN Parsed(default)
    ELSE IF value.kind = "blank" THEN Parsed(default)
    ELSE IF value.kind = "num" THEN Parsed(value.val)
    ELSE IF value.kind = "float" THEN Parsed(Truncate(value.val))
    ELSE ParseError

\* str(data.get('include_schedule', 'true')).lower() in ('true', '1', 'yes')
IncludeStrings == {"absent", "true", "YES", "1", "false", "no"}

ParseInclude(s) == s \in {"absent", "true", "YES", "1"}

(***************************************************************************)
(* Calendar dates and add_months.                                          *)
(***************************************************************************)
Date(y, m, d) == [year |-> y, month |-> m, day |-> d]

NoDate == Date(0, 0, 0)

IsLeap(year) == year % 4 = 0 /\ (year % 100 # 0 \/ year % 400 = 0)

\* the list mdays of add_months, for the given year
mdays(year) ==
    <<31, IF IsLeap(year) THEN 29 ELSE 28, 31, 30, 31, 30, 31, 31, 30, 31, 30, 31>>

\* variant of add_months that keeps the start day (no min with mdays)
add_months_unclamped(start, months) ==
    LET year  == start.year + (start.month - 1 + months) \div 12
        month == ((start.month - 1 + months) % 12) + 1
    IN  Date(year, month, start.day)

\* add_months
add_months(start, months) ==
    LET year  == start.year + (start.month - 1 + months) \div 12
        month == ((start.month - 1 + months) % 12) + 1
        day   == Min(start.day, mdays(year)[month])
    IN  Date(year, month, day)

(***************************************************************************)
(* The arithmetic of simple_loan.                                          *)
(***************************************************************************)
\* n_payments = int(round(term_years * payments_per_year)); term in halves
NPayments(term, ppy) == RoundHalfEven(term * ppy, 2)

\* variant of the guard that lets n_payments = 0 through
TermInvalid_negative_only(n) == n < 0

\* the guard `if n_payments <= 0`
TermInvalid(n) == n <= 0

\* periodic_rate = (annual_rate / 100.0) / payments_per_year, ppy # 0,
\* as a reduced fraction with a positive denominator
PeriodicRate(rate, ppy) ==
    LET num == IF ppy < 0 THEN -rate ELSE rate
        den == 100 * Abs(ppy)
        g   == GCD(Abs(num), den)
    IN  [num |-> num \div g, den |-> den \div g]

\* variant of the zero-rate payment that truncates to whole cents
ZeroRatePayment_floor(p, n) == {10 * (p \div (10 * n))}

\* payment = round(principal / n_payments, 2)
ZeroRatePayment(p, n) == Round2(p, n)

\* payment = round(principal * r / (1 - (1 + r) ** (-n_payments)), 2)
\* with 1 + r = base/den: principal * num * base^n / (den * (base^n - den^n)).
\* The value is the empty set where Python raises ZeroDivisionError:
\* n = 0, 1 + r = 0 (0.0 ** -n), or (1 + r) ** -n = 1.
\* (In floating point 1 + r = 1.0 also for a positive r below 2^-53, and
\* the division then raises as well; the exact model has no such r.)
PaymentSet(p, r, n) ==
    IF n = 0 THEN {}
    ELSE IF r.num = 0 THEN ZeroRatePayment(p, n)
    ELSE LET base == r.num + r.den
             X    == Pow(base, n)
             Y    == Pow(r.den, n)
         IN  IF base = 0 \/ X = Y THEN {}
             ELSE Round2(p * r.num * X, r.den * (X - Y))

\* interest = round(balance * periodic_rate, 2)
InterestSet(bal, r) == Round2(bal * r.num, r.den)

\* variant of the final-period test that is off by one (never true in the loop)
IsFinalPeriod_never(k, n) == k = n + 1

\* the test `if i == n_payments`
IsFinalPeriod(k, n) == k = n

\* variant that books the whole payment as principal
PrincipalPaid_whole_payment(pay, interest) == Round2(pay, 1)

\* principal_paid = round(payment - interest, 2)
PrincipalPaid(pay, interest) == Round2(pay - interest, 1)

\* variant that reduces the balance by the payment, interest included
NextBalance_minus_payment(bal, paid, pay) == Round2(bal - pay, 1)

\* balance = round(balance - principal_paid, 2) of a non-final period
NextBalance(bal, paid, pay) == Round2(bal - paid, 1)

(***************************************************************************)
(* The explored requests.                                                  *)
(***************************************************************************)
PrincipalValues == {-1000, 0, 30, 1004, 10000}

RateValues == {-100, 0, 50, 100}

TermValues == -2 .. MaxTermHalves

PaymentsPerYearValues == {-2, -1, 0, 1, 2}

StartDates == {Date(2024, 1, 31), Date(2023, 1, 31), Date(2023, 11, 30),
               Date(1900, 1, 31), Date(2024, 12, 15)}

Todays == {Date(2026, 11, 3), Date(2024, 10, 31)}

DateTags == {[kind |-> "absent", date |-> NoDate],
             [kind |-> "blank", date |-> NoDate],
             [kind |-> "bad", date |-> NoDate]}

DateValues == DateTags \cup {[kind |-> "iso", date |-> d] : d \in StartDates}

Absent == Raw("absent", 0)

\* requests whose numeric fields are all numbers
NumericRequests ==
    [principal : Nums(PrincipalValues),
     annual_rate : Nums(RateValues),
     rate : {Absent},
     term_years : Nums(TermValues),
     time : {Absent},
     payments_per_year : Nums(PaymentsPerYearValues),
     start_date : DateValues,
     include_schedule : {"absent", "no"}]

\* requests whose numeric fields are absent, null, blank or unparseable
CoercionRequests ==
    { d \in [principal : Tags \cup Nums({10000}),
             annual_rate : Tags \cup Nums({0, 50}),
             rate : {Absent, Raw("bad", 0), Raw("num", 100)},
             term_years : Tags \cup Nums({1, 2}),
             time : {Absent, Raw("bad", 0), Raw("num", 4)},
             payments_per_year : Tags \cup Nums({1}) \cup
                                 {Raw("float", 5), Raw("float", -3), Raw("fracstr", 5)},
             start_date : {[kind |-> "bad", date |-> NoDate],
                           [kind |-> "iso", date |-> Date(2024, 1, 31)]},
             include_schedule : IncludeStrings] :
        /\ (d.annual_rate.kind # "absent" => d.rate = Absent)
        /\ (d.term_years.kind # "absent" => d.time = Absent)
        /\ (d.include_schedule \notin {"absent", "no"} => d.start_date.kind = "iso") }

\* the four numeric fields as lines 78-81 read them
ReadPrincipal(d) == parse_float(Get(d, "principal", Raw("num", 0)), 0)

ReadAnnualRate(d) ==
    parse_float(Get(d, "annual_rate", Get(d, "rate", Raw("num", 0))), 0)

ReadTermYears(d) ==
    parse_float(Get(d, "term_years", Get(d, "time", Raw("num", 0))), 0)

ReadPaymentsPerYear(d) ==
    parse_int(Get(d, "payments_per_year", Raw("num", DefaultPaymentsPerYear)),
              DefaultPaymentsPerYear)

\* the integers of the annuity formula stay within MaxMagnitude
Fits(d) ==
    LET p == ReadPrincipal(d)
        a == ReadAnnualRate(d)
        t == ReadTermYears(d)
        q == ReadPaymentsPerYear(d)
    IN  (p.ok /\ a.ok /\ t.ok /\ q.ok /\ q.val # 0 /\ a.val # 0) =>
        LET n == NPayments(t.val, q.val)
            r == PeriodicRate(a.val, q.val)
            X == PowCap(Abs(r.num + r.den), n)
            Y == PowCap(r.den, n)
        IN  /\ MulCap(MulCap(Abs(p.val), Abs(r.num)), X) <= MaxMagnitude
            /\ MulCap(r.den, X + Y) <= MaxMagnitude

Requests == {d \in NumericRequests \cup CoercionRequests : Fits(d)}

(***************************************************************************)
(* Responses of the handler.                                               *)
(***************************************************************************)
NoResponse ==
    [status |-> 0, error |-> "", field |-> "", payment |-> 0,
     total_interest |-> 0, total_payment |-> 0, has_schedule |-> FALSE,
     schedule |-> <<>>]

\* jsonify({'error': msg}), 400; field is the name formatted into msg
ErrorResponse(msg, name) ==
    [NoResponse EXCEPT !.status = 400, !.error = msg, !.field = name]

\* an exception no handler catches: the framework answers 500
CrashResponse(exc) == [NoResponse EXCEPT !.status = 500, !.error = exc]

InvalidNumeric == "Invalid numeric input for"

InvalidInteger == "Invalid integer input for"

InvalidTerm == "Term must be positive"

InvalidDate == "Invalid start_date format, use YYYY-MM-DD"

Init ==
    /\ data \in Requests
    /\ pc = "parse"
    /\ principal = 0
    /\ annual_rate = 0
    /\ term_years = 0
    /\ payments_per_year = 0
    /\ include_schedule = FALSE
    /\ n_payments = 0
    /\ periodic_rate = [num |-> 0, den |-> 1]
    /\ payment = 0
    /\ start_date = NoDate
    /\ balance = 0
    /\ i = 0
    /\ schedule = <<>>
    /\ total_interest = 0
    /\ response = NoResponse

\* lines 76-86: the try block; the first field that fails ends the request
ParseInputs ==
    /\ pc = "parse"
    /\ LET p == ReadPrincipal(data)
           a == ReadAnnualRate(data)
           t == ReadTermYears(data)
           q == ReadPaymentsPerYear(data)
           failed == IF ~p.ok THEN ErrorResponse(InvalidNumeric, "principal")
                     ELSE IF ~a.ok THEN ErrorResponse(InvalidNumeric, "annual_rate")
                     ELSE IF ~t.ok THEN ErrorResponse(InvalidNumeric, "term_years")
                     ELSE IF ~q.ok THEN ErrorResponse(InvalidInteger, "payments_per_year")
                     ELSE NoResponse
       IN  IF failed # NoResponse
           THEN /\ response' = failed
                /\ pc' = "done"
                /\ UNCHANGED <<principal, annual_rate, term_years,
                               payments_per_year, include_schedule>>
           ELSE /\ principal' = p.val
                /\ annual_rate' = a.val
                /\ term_years' = t.val
                /\ payments_per_year' = q.val
                /\ include_schedule' = ParseInclude(data.include_schedule)
                /\ pc' = "term"
                /\ UNCHANGED response
    /\ UNCHANGED <<data, n_payments, periodic_rate, payment, start_date,
                   balance, i, schedule, total_interest>>

\* lines 88-90
CheckTerm ==
    /\ pc = "term"
    /\ n_payments' = NPayments(term_years, payments_per_year)
    /\ IF TermInvalid(n_payments')
       THEN response' = ErrorResponse(InvalidTerm, "") /\ pc' = "done"
       ELSE pc' = "payment" /\ UNCHANGED response
    /\ UNCHANGED <<data, principal, annual_rate, term_years, payments_per_year,
                   include_schedule, periodic_rate, payment, start_date,
                   balance, i, schedule, total_interest>>

\* lines 92-97: the periodic rate and the level payment
ComputePayment ==
    /\ pc = "payment"
    /\ IF payments_per_year = 0
       THEN /\ response' = CrashResponse("ZeroDivisionError")
            /\ pc' = "done"
            /\ UNCHANGED <<periodic_rate, payment>>
       ELSE LET r == PeriodicRate(annual_rate, payments_per_year)
                pays == PaymentSet(principal, r, n_payments)
            IN  IF pays = {}
                THEN /\ response' = CrashResponse("ZeroDivisionError")
                     /\ pc' = "done"
                     /\ UNCHANGED <<periodic_rate, payment>>
                ELSE /\ periodic_rate' = r
                     /\ \E v \in pays : payment' = v
                     /\ pc' = "date"
                     /\ UNCHANGED response
    /\ UNCHANGED <<data, principal, annual_rate, term_years, payments_per_year,
                   include_schedule, n_payments, start_date, balance, i,
                   schedule, total_interest>>

\* lines 99-110: the start date, then the loop's initial state
ParseStartDate ==
    /\ pc = "date"
    /\ IF data.start_date.kind = "bad"
       THEN /\ response' = ErrorResponse(InvalidDate, "")
            /\ pc' = "done"
            /\ UNCHANGED <<start_date, balance, i, schedule, total_interest>>
       ELSE /\ IF data.start_date.kind = "iso"
               THEN start_date' = data.start_date.date
               ELSE \E today \in Todays : start_date' = today
            /\ balance' = principal
            /\ schedule' = <<>>
            /\ total_interest' = 0
            /\ i' = 1
            /\ pc' = "loop"
            /\ UNCHANGED response
    /\ UNCHANGED <<data, principal, annual_rate, term_years, payments_per_year,
                   include_schedule, n_payments, periodic_rate, payment>>

\* lines 112-133: one iteration of the schedule loop
LoopStep ==
    /\ pc = "loop"
    /\ i <= n_payments
    /\ \E interest \in InterestSet(balance, periodic_rate) :
         /\ IF IsFinalPeriod(i, n_payments)
            THEN \E paid \in Round2(balance, 1) :
                   /\ balance' = 0
                   /\ schedule' = Append(schedule,
                        [payment_no |-> i,
                         date |-> add_months(start_date, i - 1),
                         payment |-> paid + interest,
                         interest |-> interest,
                         principal |-> paid,
                         balance |-> 0])
            ELSE \E paid \in PrincipalPaid(payment, interest) :
                 \E bal \in NextBalance(balance, paid, payment) :
                   /\ balance' = bal
                   /\ schedule' = Append(schedule,
                        [payment_no |-> i,
                         date |-> add_months(start_date, i - 1),
                         payment |-> payment,
                         interest |-> interest,
                         principal |-> paid,
                         balance |-> bal])
         /\ total_interest' = total_interest + interest
    /\ i' = i + 1
    /\ UNCHANGED <<data, pc, principal, annual_rate, term_years,
                   payments_per_year, include_schedule, n_payments,
                   periodic_rate, payment, start_date, response>>

\* lines 135-156: the totals and the response
BuildResult ==
    /\ pc = "loop"
    /\ i > n_payments
    /\ \E total \in Round2(principal + total_interest, 1) :
         response' = [status |-> 200, error |-> "", field |-> "",
                      payment |-> payment,
                      total_interest |-> total_interest,
                      total_payment |-> total,
                      has_schedule |-> include_schedule,
                      schedule |-> IF include_schedule THEN schedule ELSE <<>>]
    /\ pc' = "done"
    /\ UNCHANGED <<data, principal, annual_rate, term_years, payments_per_year,
                   include_schedule, n_payments, periodic_rate, payment,
                   start_date, balance, i, schedule, total_interest>>

Next ==
    \/ ParseInputs
    \/ CheckTerm
    \/ ComputePayment
    \/ ParseStartDate
    \/ LoopStep
    \/ BuildResult

Spec == Init /\ [][Next]_vars

(***************************************************************************)
(* Vocabulary of the properties.                                           *)
(***************************************************************************)
\* the request ran to the end and was answered with a result
Accepted == pc = "done" /\ response.status = 200

\* every numeric field was read without a ValueError
NumbersParsed ==
    pc # "parse" /\ response.error \notin {InvalidNumeric, InvalidInteger}

\* v is the amount num/den (den > 0) rounded to 2 decimals
IsRounded2(v, num, den) ==
    v % 10 = 0 /\ 2 * Abs(v * den - num) <= 10 * den

\* the balance before line k: the principal, then the previous line's balance
BalanceBefore(k) == IF k = 1 THEN principal ELSE schedule[k - 1].balance

RECURSIVE SumPrincipal(_)
SumPrincipal(lines) ==
    IF lines = <<>> THEN 0 ELSE Head(lines).principal + SumPrincipal(Tail(lines))

\* the request is one the data model calls valid: a positive term and
\* frequency, a principal and a rate that are not negative
ValidRequest ==
    term_years > 0 /\ payments_per_year > 0 /\ principal >= 0 /\ annual_rate >= 0

\* the last day of a month of the Gregorian calendar
LastDayOf(y, m) ==
    IF m \in {4, 6, 9, 11} THEN 30
    ELSE IF m # 2 THEN 31
    ELSE IF y % 400 = 0 \/ (y % 4 = 0 /\ y % 100 # 0) THEN 29
    ELSE 28

(***************************************************************************)
(* C1: for every accepted request the last line of the schedule built by   *)
(* the loop is line number n_payments and its balance is exactly 0.        *)
(***************************************************************************)
LastBalanceZero ==
    Accepted =>
        /\ schedule # <<>>
        /\ schedule[Len(schedule)].payment_no = n_payments
        /\ schedule[Len(schedule)].balance = 0

\* an accepted three-period loan that still owed money before its last line
LastBalanceZeroWitness ==
    /\ Accepted
    /\ n_payments >= 3
    /\ schedule[n_payments - 1].balance > 0
    /\ schedule[n_payments].balance = 0

(***************************************************************************)
(* C2: for every accepted request with principal >= 0 and annual_rate >= 0 *)
(* every recorded balance is >= 0 and no balance exceeds the one before    *)
(* it (the principal before line 1).  Stated for the requests of the claim *)
(* that have annual_rate = 0 and a positive term and frequency: there the  *)
(* interest is 0 on every line, so no run depends on how round() breaks a  *)
(* tie in the interest.                                                    *)
(***************************************************************************)
BalanceNonNegativeNonIncreasing ==
    (Accepted /\ ValidRequest /\ annual_rate = 0) =>
        \A k \in 1 .. Len(schedule) :
            /\ schedule[k].balance >= 0
            /\ schedule[k].balance <= BalanceBefore(k)

(***************************************************************************)
(* C3: for every accepted request the principal fields of the schedule     *)
(* lines add up to the original principal within 0.01 * n_payments.        *)
(***************************************************************************)
PrincipalSumWithinTolerance ==
    Accepted => Abs(SumPrincipal(schedule) - principal) <= 10 * n_payments

\* a principal with a fraction of a cent: the lines add up to another amount
PrincipalSumWitness ==
    /\ Accepted
    /\ n_payments >= 2
    /\ annual_rate # 0
    /\ SumPrincipal(schedule) # principal

(***************************************************************************)
(* C4: once the numeric fields are read, the request ends with 'Term must  *)
(* be positive' exactly when n_payments <= 0, and when n_payments >= 1 and *)
(* the start date parses it ends with a result whose schedule has          *)
(* n_payments lines.                                                       *)
(***************************************************************************)
TermCheckDecidesOutcome ==
    (pc = "done" /\ NumbersParsed) =>
        /\ (n_payments <= 0 <=> response.error = InvalidTerm)
        /\ (n_payments >= 1 /\ data.start_date.kind # "bad") =>
               /\ response.status = 200
               /\ Len(schedule) = n_payments

(***************************************************************************)
(* C5: a request whose term_years is <= 0 never gets a schedule: it ends   *)
(* with 'Term must be positive' whatever payments_per_year is.             *)
(***************************************************************************)
NonPositiveTermRejected ==
    (NumbersParsed /\ term_years <= 0) =>
        /\ schedule = <<>>
        /\ \/ pc = "term"
           \/ pc = "done" /\ response.error = InvalidTerm

CoercionDefaultsAndErrors ==
    LET defaulted(f, alias) ==
            \/ data[f].kind \in {"none", "blank"}
            \/ data[f].kind = "absent" /\ data[alias].kind \in {"absent", "none", "blank"}
        unparseable(f, alias) ==
            \/ data[f].kind \in {"bad", "fracstr"}
            \/ data[f].kind = "absent" /\ data[alias].kind = "bad"
        badP == unparseable("principal", "principal")
        badA == unparseable("annual_rate", "rate")
        badT == unparseable("term_years", "time")
        badQ == unparseable("payments_per_year", "payments_per_year")
        first == IF badP THEN "principal"
                 ELSE IF badA THEN "annual_rate"
                 ELSE IF badT THEN "term_years"
                 ELSE "payments_per_year"
    IN  pc # "parse" =>
        IF badP \/ badA \/ badT \/ badQ
        THEN /\ pc = "done"
             /\ response.status = 400
             /\ response.field = first
             /\ response.error =
                  (IF first = "payments_per_year" THEN InvalidInteger ELSE InvalidNumeric)
             /\ response.schedule = <<>> /\ schedule = <<>>
             /\ response.payment = 0 /\ response.total_payment = 0
        ELSE /\ response.error \notin {InvalidNumeric, InvalidInteger}
             /\ (defaulted("principal", "principal") => principal = 0)
             /\ (defaulted("annual_rate", "rate") => annual_rate = 0)
             /\ (defaulted("term_years", "time") => term_years = 0)
             /\ (defaulted("payments_per_year", "payments_per_year") =>
                    payments_per_year = 12)

\* a blank principal defaulted, then a payments_per_year of "2.5" was refused
CoercionWitness ==
    /\ pc = "done"
    /\ data.principal.kind = "blank"
    /\ data.annual_rate.kind = "none"
    /\ data.payments_per_year.kind = "fracstr"
    /\ response.field = "payments_per_year"

(***************************************************************************)
(* C8: line k of the schedule is dated (k - 1) months after the original   *)
(* start date: same month count, a valid calendar date, the start day      *)
(* clamped to the last day of the target month (Gregorian leap rule).      *)
(* Jan 31 2024 + 1 month = Feb 29 2024, Jan 31 2023 + 1 month =            *)
(* Feb 28 2023, and Jan 31 + 2 months = Mar 31.                            *)
(***************************************************************************)
ScheduleDates ==
    \A k \in 1 .. Len(schedule) :
        LET d == schedule[k].date
            s == start_date
        IN  /\ d.month \in 1 .. 12
            /\ 12 * d.year + d.month = 12 * s.year + s.month + (k - 1)
            /\ d.day >= 1 /\ d.day <= LastDayOf(d.year, d.month)
            /\ d.day = Min(s.day, LastDayOf(d.year, d.month))
            /\ (s = Date(2024, 1, 31) /\ k = 2 => d = Date(2024, 2, 29))
            /\ (s = Date(2023, 1, 31) /\ k = 2 => d = Date(2023, 2, 28))
            /\ (s.month = 1 /\ s.day = 31 /\ k = 3 => d = Date(s.year, 3, 31))

\* a schedule from Jan 31 2024 with a clamped February and a full March
ScheduleDatesWitness ==
    /\ Len(schedule) >= 3
    /\ start_date = Date(2024, 1, 31)
    /\ schedule[2].date = Date(2024, 2, 29)
    /\ schedule[3].date = Date(2024, 3, 31)

(***************************************************************************)
(* C9, as claimed: with annual_rate = 0 every line's interest is 0, every  *)
(* line but the last pays round(principal / n_payments, 2) of principal,   *)
(* the last line pays the remaining balance, total_interest is 0 and       *)
(* total_payment is the principal.  Stated for valid requests.             *)
(***************************************************************************)
ZeroRateExact ==
    (Accepted /\ ValidRequest /\ annual_rate = 0) =>
        /\ \A k \in 1 .. Len(schedule) : schedule[k].interest = 0
        /\ \A k \in 1 .. Len(schedule) - 1 :
              IsRounded2(schedule[k].principal, principal, n_payments)
        /\ schedule[n_payments].principal = BalanceBefore(n_payments)
        /\ response.total_interest = 0
        /\ response.total_payment = principal

(***************************************************************************)
(* C9, amended: as claimed, except that the last line pays the remaining   *)
(* balance rounded to 2 decimals and total_payment is the principal        *)
(* rounded to 2 decimals.                                                  *)
(***************************************************************************)
ZeroRateRounded ==
    (Accepted /\ annual_rate = 0) =>
        /\ \A k \in 1 .. Len(schedule) : schedule[k].interest = 0
        /\ \A k \in 1 .. Len(schedule) - 1 :
              /\ IsRounded2(schedule[k].principal, principal, n_payments)
              /\ schedule[k].principal = response.payment
        /\ IsRounded2(schedule[n_payments].principal, BalanceBefore(n_payments), 1)
        /\ response.total_interest = 0
        /\ IsRounded2(response.total_payment, principal, 1)

\* a zero-rate loan of 1.004 whose last line absorbs the residue
ZeroRateWitness ==
    /\ Accepted
    /\ annual_rate = 0
    /\ n_payments >= 3
    /\ principal % 10 # 0
    /\ schedule[n_payments].principal # schedule[1].principal
    /\ response.total_payment # principal

(***************************************************************************)
(* C10, as claimed: on every line the balance is the balance before it     *)
(* minus the line's principal (the principal before line 1) and the        *)
(* payment is interest plus principal; a non-final line pays the level     *)
(* payment, the final line pays the whole remaining balance.  Stated for   *)
(* valid requests.                                                         *)
(***************************************************************************)
LineArithmeticExact ==
    (Accepted /\ ValidRequest) =>
        \A k \in 1 .. Len(schedule) :
            /\ schedule[k].balance = BalanceBefore(k) - schedule[k].principal
            /\ schedule[k].payment = schedule[k].interest + schedule[k].principal
            /\ (k < n_payments => schedule[k].payment = response.payment)
            /\ (k = n_payments => schedule[k].principal = BalanceBefore(k))

(***************************************************************************)
(* C10, amended: on every non-final line the balance is the balance before *)
(* it minus the line's principal, rounded to 2 decimals, and the payment   *)
(* is the level payment; the final line pays the remaining balance rounded *)
(* to 2 decimals and leaves a balance of 0; on every line the payment is   *)
(* interest plus principal.                                                *)
(***************************************************************************)
LineArithmeticRounded ==
    Accepted =>
        \A k \in 1 .. Len(schedule) :
            /\ schedule[k].payment = schedule[k].interest + schedule[k].principal
            /\ k < n_payments =>
                  /\ IsRounded2(schedule[k].balance,
                                BalanceBefore(k) - schedule[k].principal, 1)
                  /\ schedule[k].payment = response.payment
            /\ k = n_payments =>
                  /\ IsRounded2(schedule[k].principal, BalanceBefore(k), 1)
                  /\ schedule[k].balance = 0

\* an interest-bearing loan of 1.004 over several periods
LineArithmeticWitness ==
    /\ Accepted
    /\ n_payments >= 2
    /\ principal % 10 # 0
    /\ schedule[1].interest > 0
    /\ schedule[1].balance # principal - schedule[1].principal

====
